---------------------------- MODULE Spec2Model ----------------------------
(***************************************************************************)
(* StudyCountDown backend: the Express/Mongoose server of src/server.js    *)
(* and the earlier snapshot of it kept in src/unnamed/part_000.            *)
(*                                                                         *)
(* The two files are two revisions of one server (both listen on PORT), so *)
(* a run of the program is a run of one of them: `rev` is fixed in Init.   *)
(*                                                                         *)
(* A request handler runs atomically between its `await`s (Node's event    *)
(* loop), so every action below is one such stretch of a handler together  *)
(* with the single database operation it waits for.  The database is the   *)
(* users collection; Mongoose operations are modelled by what they send:   *)
(*   - save() of a new document inserts it; the unique index on email      *)
(*     rejects a second document with the same email (E11000);             *)
(*   - save() of a loaded document sends only the paths the handler        *)
(*     modified: $set for an assigned path whose value differs from the    *)
(*     loaded one, $push for Array.push; a changed array bumps the         *)
(*     version key __v, and an overwritten array is sent with the loaded   *)
(*     __v in the filter (VersionError when it no longer matches).         *)
(* createdAt/updatedAt (timestamps: true) and the _id of embedded plans    *)
(* are not modelled; request bodies carry plans without _id.               *)
(***************************************************************************)
EXTENDS Integers, Sequences, FiniteSets, TLC

VARIABLES
    rev,          \* which revision runs: "server.js" or "part_000"
    dbUp,         \* environment: the MongoDB server is reachable
    readyState,   \* mongoose.connection.readyState
    attempts,     \* mongoose.connect() calls in flight
    timers,       \* pending setTimeout(connectWithRetry, d): the sequence of d
    now,          \* wall clock, in days
    users,        \* the users collection: _id -> document (schema fields)
    versionKey,   \* the __v of each stored document
    reqs,         \* request slots: the requests in flight between two awaits
    lastResp,     \* the response sent last (and the request it answers)
    prevResp,     \* the response sent before lastResp
    registered    \* history: _id -> the register body that created the user

vars == <<rev, dbUp, readyState, attempts, timers, now, users,
          versionKey, reqs, lastResp, prevResp, registered>>

connVars == <<dbUp, readyState, attempts, timers>>
storeVars == <<users, versionKey, registered>>

---------------------------------------------------------------------------
(* Bounds of the model. *)

MaxUsers == 2        \* documents the collection may hold
MaxRequests == 3     \* requests served in one run
MaxInFlight == 2     \* requests in flight at once
MaxPlans == 2        \* length of a stored studyPlans array
MaxTicks == 1        \* clock advances in one run
TickDays == 7        \* days per clock advance

(* Program constants. *)
ExpiresInDays == 7   \* jwt.sign(..., { expiresIn: "7d" })
RetryDelayMs == 5000 \* setTimeout(connectWithRetry, 5000)

Revisions == {"server.js", "part_000"}
Slots == 1..MaxInFlight
Ids == 1..MaxUsers

---------------------------------------------------------------------------
(* Values. "" is an absent or empty string (falsy in JS); <<>> an absent   *)
(* or empty password.                                                      *)

Names == {"Ann", "Bob"}
Emails == {"a@x.com", "b@x.com"}
Passwords == {<<"pw123456">>, <<"hunter2">>}
Avatars == {"av.png"}
Dates == {"2026-01-01", "2026-06-30"}
Salts == {"salt"}

MathPlan == [subject |-> "Math", hours |-> "2", milestone |-> "Ch1", completed |-> FALSE]
ArtPlan == [subject |-> "Art", hours |-> "3", milestone |-> "Ch2", completed |-> TRUE]
BadPlan == [subject |-> "Math", hours |-> "two", milestone |-> "Ch1", completed |-> FALSE]
Plans == {MathPlan, ArtPlan}

(* Schema cast of an embedded plan: hours: Number. *)
PlanCasts(p) == p.hours \in {"2", "3"}


---------------------------------------------------------------------------
(* Credential hasher: bcrypt.hash(password, 10) and bcrypt.compare.  The   *)
(* hash string carries its version, cost and salt; compare re-hashes the   *)
(* plaintext with the salt found in the hash.                              *)

Hash(plaintext, salt) == <<"$2a$", "10", salt>> \o plaintext

(* A compare that re-hashes without the salt of the stored hash. *)
CompareWithoutSalt(plaintext, hashed) ==
    /\ Len(hashed) > 3
    /\ hashed = Hash(plaintext, "")

Compare(plaintext, hashed) ==
    /\ Len(hashed) > 3
    /\ hashed = Hash(plaintext, hashed[3])

---------------------------------------------------------------------------
(* Session token codec: jwt.sign({ _id }, JWT_SECRET[, { expiresIn: "7d" }])*)
(* and jwt.verify(token, JWT_SECRET).  sig is "ok" for a token signed with *)
(* JWT_SECRET.                                                             *)

SignWithExpiry(id, clock) ==
    [sub |-> id, hasExp |-> TRUE, exp |-> clock + ExpiresInDays, sig |-> "ok"]

SignForever(id, clock) ==
    [sub |-> id, hasExp |-> FALSE, exp |-> 0, sig |-> "ok"]

Sign(revision, id, clock) ==
    IF revision = "server.js" THEN SignWithExpiry(id, clock)
                              ELSE SignForever(id, clock)

(* jwt.verify: throws on a bad signature or a malformed token, and on an   *)
(* exp claim that is not in the future.                                    *)
Verifies(token, clock) ==
    /\ token.sig = "ok"
    /\ token.hasExp => clock < token.exp

EmptyToken == [sub |-> 0, hasExp |-> FALSE, exp |-> 0, sig |-> "empty"]
ForgedToken == [sub |-> 1, hasExp |-> FALSE, exp |-> 0, sig |-> "bad"]

(* The Authorization header of a request. *)
NoHeader == [present |-> FALSE, token |-> EmptyToken]
Bearer(token) == [present |-> TRUE, token |-> token]

(* req.header("Authorization")?.replace("Bearer ", ""): the token, or a    *)
(* falsy value (undefined, "") for which EmptyToken stands.                *)
ExtractToken(header) == IF header.present THEN header.token ELSE EmptyToken

---------------------------------------------------------------------------
(* User store: the users collection, a sequence of documents indexed by    *)
(* _id (the n-th inserted document has _id n).                             *)

NewUser(name, email, hashed) ==
    [name |-> name, email |-> email, password |-> hashed, avatar |-> "",
     studyPlans |-> <<>>, targetDate |-> ""]

NoUser == NewUser("", "", <<>>)

(* User.findOne({ email }): the _id of the document found, 0 for null. *)
findOne(store, email) ==
    IF \E i \in DOMAIN store : store[i].email = email
    THEN CHOOSE i \in DOMAIN store : store[i].email = email
    ELSE 0

(* User.findById(id): the _id when a document has it, 0 for null. *)
findById(store, id) == IF id \in DOMAIN store THEN id ELSE 0

(* A collection without the unique index: every insert is accepted. *)
UniqueIndexMissing(store, email) == TRUE

(* The unique index on email (UserSchema: email: { unique: true }): an     *)
(* insert is refused with E11000 when a document holds the same email.     *)
UniqueIndexAllows(store, email) == \A i \in DOMAIN store : store[i].email # email

(* The document as JSON (res.json(user), res.send(user)): every stored     *)
(* field.                                                                  *)
FullDoc(store, vk, id) ==
    [_id |-> id, name |-> store[id].name, email |-> store[id].email,
     password |-> store[id].password, avatar |-> store[id].avatar,
     studyPlans |-> store[id].studyPlans, targetDate |-> store[id].targetDate,
     __v |-> vk[id]]

---------------------------------------------------------------------------
(* Request slots and responses. *)

Idle == [pc |-> "idle", kind |-> "", header |-> NoHeader, body |-> "",
         uid |-> 0, user |-> NoUser, v |-> 0, loadedAt |-> 0]

NoResp == [seq |-> 0, kind |-> "", status |-> 0, header |-> NoHeader,
           input |-> "", uid |-> 0, loadedAt |-> 0, body |-> [error |-> ""],
           mem |-> NoUser, modified |-> {}]

InFlight == {r \in Slots : reqs[r].pc # "idle"}

(* A new request is taken by the lowest free slot, while the run's budget  *)
(* of requests lasts.                                                      *)
Free(r) ==
    /\ reqs[r].pc = "idle"
    /\ \A q \in Slots : q < r => reqs[q].pc # "idle"
    /\ lastResp.seq + Cardinality(InFlight) < MaxRequests

(* res.status(s).json(b) for the request (kind, header, input) of a        *)
(* handler that saved req.user: mem is req.user as the handler left it and *)
(* modified the paths its save() sent.                                     *)
RespondSaved(kind, header, input, uid, loadedAt, status, body, mem, modified) ==
    /\ lastResp' = [seq |-> lastResp.seq + 1, kind |-> kind, status |-> status,
                    header |-> header, input |-> input, uid |-> uid,
                    loadedAt |-> loadedAt, body |-> body, mem |-> mem,
                    modified |-> modified]
    /\ prevResp' = lastResp

(* res.status(s).json(b) for the request (kind, header, input). *)
Respond(kind, header, input, uid, loadedAt, status, body) ==
    RespondSaved(kind, header, input, uid, loadedAt, status, body, NoUser, {})

---------------------------------------------------------------------------
(* Connection supervisor. *)

Init ==
    /\ rev \in Revisions
    /\ dbUp \in BOOLEAN
    /\ readyState = "connecting"     \* connectWithRetry() / mongoose.connect()
    /\ attempts = 1
    /\ timers = <<>>
    /\ now = 0
    /\ users = <<>>
    /\ versionKey = <<>>
    /\ registered = <<>>
    /\ reqs = [r \in Slots |-> Idle]
    /\ lastResp = NoResp
    /\ prevResp = NoResp

(* mongoose.connection.readyState as the health endpoint reports it. *)
ReadyStateCode(state) ==
    CASE state = "disconnected" -> 0
      [] state = "connected" -> 1
      [] state = "connecting" -> 2
      [] OTHER -> 3

(* What the .catch of a failed connect schedules. *)
RetryTimers(revision) ==
    IF revision = "server.js" THEN <<RetryDelayMs>> ELSE <<>>

(* mongoose.connect(...).then(...): the attempt succeeds. *)
ConnectResolved ==
    /\ attempts > 0
    /\ dbUp
    /\ attempts' = attempts - 1
    /\ readyState' = "connected"
    /\ UNCHANGED <<rev, dbUp, timers, now, users, versionKey, reqs,
                   lastResp, prevResp, registered>>

(* mongoose.connect(...).catch(...): the attempt fails (server selection   *)
(* times out); server.js schedules connectWithRetry, part_000 only logs.   *)
ConnectRejected ==
    /\ attempts > 0
    /\ ~dbUp
    /\ attempts' = attempts - 1
    /\ readyState' = "disconnected"
    /\ timers' = timers \o RetryTimers(rev)
    /\ UNCHANGED <<rev, dbUp, now, users, versionKey, reqs,
                   lastResp, prevResp, registered>>

(* The setTimeout callback: connectWithRetry() starts the next attempt. *)
RetryTimerFires ==
    /\ timers # <<>>
    /\ timers' = Tail(timers)
    /\ attempts' = attempts + 1
    /\ readyState' = "connecting"
    /\ UNCHANGED <<rev, dbUp, now, users, versionKey, reqs,
                   lastResp, prevResp, registered>>

(* Environment: the database becomes reachable or unreachable while the    *)
(* server is not connected (afterwards the driver keeps the connection).   *)
DbReachabilityChanges ==
    /\ readyState # "connected"
    /\ dbUp' = ~dbUp
    /\ UNCHANGED <<rev, readyState, attempts, timers, now, users,
                   versionKey, reqs, lastResp, prevResp, registered>>

(* Environment: time passes. *)
Tick ==
    /\ now < MaxTicks * TickDays
    /\ now' = now + TickDays
    /\ UNCHANGED <<rev, dbUp, readyState, attempts, timers, users,
                   versionKey, reqs, lastResp, prevResp, registered>>

---------------------------------------------------------------------------
(* Request bodies. *)

RegisterBodies ==
    { [name |-> "Ann", email |-> "a@x.com", password |-> <<"pw123456">>],
      [name |-> "Bob", email |-> "a@x.com", password |-> <<"hunter2">>],
      [name |-> "Bob", email |-> "b@x.com", password |-> <<"pw123456">>],
      [name |-> "", email |-> "a@x.com", password |-> <<"pw123456">>],
      [name |-> "Ann", email |-> "", password |-> <<"hunter2">>],
      [name |-> "Ann", email |-> "b@x.com", password |-> <<>>] }

LoginBodies ==
    { [email |-> "a@x.com", password |-> <<"pw123456">>],
      [email |-> "a@x.com", password |-> <<"hunter2">>],
      [email |-> "b@x.com", password |-> <<"pw123456">>],
      [email |-> "", password |-> <<"pw123456">>],
      [email |-> "a@x.com", password |-> <<>>] }

ErrorBody(message) == [error |-> message]

(* Register requests between findOne and save, which will insert. *)
Registering == {r \in Slots : reqs[r].pc = "register:save"}

(* The collection is bounded: a register that may insert is taken only     *)
(* while there is room for its document.                                   *)
RoomToInsert == Len(users) + Cardinality(Registering) < MaxUsers

(* new User({...}).save(): the insert, checked by the unique index. *)
Insert(store, doc) == Append(store, doc)

---------------------------------------------------------------------------
(* POST /api/register, server.js: validation and User.findOne({ email }).  *)

Register(r) ==
    /\ rev = "server.js"
    /\ Free(r)
    /\ \E body \in RegisterBodies :
         IF body.name = "" \/ body.email = "" \/ body.password = <<>>
         THEN /\ Respond("register", NoHeader, body, 0, lastResp.seq, 400,
                         ErrorBody("All fields are required"))
              /\ UNCHANGED reqs
         ELSE /\ readyState = "connected"
              /\ IF findOne(users, body.email) # 0
                 THEN /\ Respond("register", NoHeader, body, 0, lastResp.seq, 400,
                                 ErrorBody("Email already in use"))
                      /\ UNCHANGED reqs
                 ELSE /\ RoomToInsert
                      /\ reqs' = [reqs EXCEPT ![r] =
                            [Idle EXCEPT !.pc = "register:save",
                                         !.kind = "register",
                                         !.body = body,
                                         !.loadedAt = lastResp.seq]]
                      /\ UNCHANGED <<lastResp, prevResp>>
    /\ UNCHANGED <<rev, dbUp, readyState, attempts, timers, now, users,
                   versionKey, registered>>

(* The 201 body of register. *)
RegisterBody(revision, store, vk, id, token) ==
    IF revision = "server.js"
    THEN [user |-> [_id |-> id, name |-> store[id].name, email |-> store[id].email],
          token |-> token]
    ELSE [user |-> FullDoc(store, vk, id), token |-> token]

(* POST /api/register, server.js: bcrypt.hash, user.save(), jwt.sign; a    *)
(* rejected save lands in the catch (500).                                 *)
RegisterSave(r) ==
    /\ reqs[r].pc = "register:save"
    /\ readyState = "connected"
    /\ \E salt \in Salts :
         LET body == reqs[r].body
             doc == NewUser(body.name, body.email, Hash(body.password, salt))
             id == Len(users) + 1
         IN IF UniqueIndexAllows(users, body.email)
            THEN /\ users' = Insert(users, doc)
                 /\ versionKey' = Append(versionKey, 0)
                 /\ registered' = Append(registered, body)
                 /\ Respond("register", NoHeader, body, id, reqs[r].loadedAt, 201,
                            RegisterBody(rev, users', versionKey', id, Sign(rev, id, now)))
            ELSE /\ Respond("register", NoHeader, body, 0, reqs[r].loadedAt, 500,
                            ErrorBody("Server error during registration"))
                 /\ UNCHANGED <<users, versionKey, registered>>
    /\ reqs' = [reqs EXCEPT ![r] = Idle]
    /\ UNCHANGED <<rev, dbUp, readyState, attempts, timers, now>>

(* POST /api/register, part_000: bcrypt.hash (throws on a missing          *)
(* password), user.save(), jwt.sign; every failure is answered 400 with    *)
(* err.message.                                                            *)
RegisterPart000(r) ==
    /\ rev = "part_000"
    /\ Free(r)
    /\ \E body \in RegisterBodies, salt \in Salts :
         IF body.password = <<>>
         THEN /\ Respond("register", NoHeader, body, 0, lastResp.seq, 400,
                         ErrorBody("Illegal arguments: undefined, number"))
              /\ UNCHANGED <<users, versionKey, registered>>
         ELSE /\ readyState = "connected"
              /\ LET doc == NewUser(body.name, body.email, Hash(body.password, salt))
                     id == Len(users) + 1
                 IN IF UniqueIndexAllows(users, body.email)
                    THEN /\ RoomToInsert
                         /\ users' = Insert(users, doc)
                         /\ versionKey' = Append(versionKey, 0)
                         /\ registered' = Append(registered, body)
                         /\ Respond("register", NoHeader, body, id, lastResp.seq, 201,
                                    RegisterBody(rev, users', versionKey', id,
                                                 Sign(rev, id, now)))
                    ELSE /\ Respond("register", NoHeader, body, 0, lastResp.seq, 400,
                                    ErrorBody("E11000 duplicate key error"))
                         /\ UNCHANGED <<users, versionKey, registered>>
    /\ UNCHANGED <<rev, dbUp, readyState, attempts, timers, now, reqs>>

---------------------------------------------------------------------------
(* POST /api/login. *)

LoginBody(revision, store, vk, id, token) ==
    IF revision = "server.js"
    THEN [user |-> [_id |-> id, name |-> store[id].name, email |-> store[id].email,
                    avatar |-> store[id].avatar],
          token |-> token]
    ELSE [user |-> FullDoc(store, vk, id), token |-> token]

(* The answer of login once the user was looked up: <<status, body>>. *)
LoginAnswer(revision, store, vk, clock, body) ==
    LET id == findOne(store, body.email)
    IN IF id = 0 THEN <<401, ErrorBody("Invalid credentials")>>
       ELSE IF body.password = <<>>
            THEN <<400, ErrorBody("Illegal arguments: undefined, string")>>
       ELSE IF ~Compare(body.password, store[id].password)
            THEN <<401, ErrorBody("Invalid credentials")>>
       ELSE <<200, LoginBody(revision, store, vk, id, Sign(revision, id, clock))>>

Login(r) ==
    /\ Free(r)
    /\ \E body \in LoginBodies :
         IF rev = "server.js" /\ (body.email = "" \/ body.password = <<>>)
         THEN Respond("login", NoHeader, body, 0, lastResp.seq, 400,
                      ErrorBody("Email and password are required"))
         ELSE /\ body.email # ""
              /\ readyState = "connected"
              /\ LET answer == LoginAnswer(rev, users, versionKey, now, body)
                 IN Respond("login", NoHeader, body,
                            IF answer[1] = 200 THEN findOne(users, body.email) ELSE 0,
                            lastResp.seq, answer[1], answer[2])
    /\ UNCHANGED <<rev, dbUp, readyState, attempts, timers, now, users,
                   versionKey, reqs, registered>>

---------------------------------------------------------------------------
(* GET /api/health (server.js). *)

Health(r) ==
    /\ rev = "server.js"
    /\ Free(r)
    /\ Respond("health", NoHeader, "", 0, lastResp.seq, 200,
               [status |-> "OK", dbState |-> ReadyStateCode(readyState)])
    /\ UNCHANGED <<rev, dbUp, readyState, attempts, timers, now, users,
                   versionKey, reqs, registered>>

---------------------------------------------------------------------------
(* Auth Gate: the authenticate middleware. *)

(* Tokens a client may hold: signed with JWT_SECRET at some time up to now *)
(* for some user id, which the collection may or may not hold (a token     *)
(* outlives the database it was issued against).                           *)
IssuedTokens ==
    {Sign(rev, id, k * TickDays) : id \in Ids, k \in {j \in 0..MaxTicks : j * TickDays <= now}}

Headers ==
    {NoHeader, Bearer(EmptyToken), Bearer(ForgedToken)} \cup {Bearer(t) : t \in IssuedTokens}

AccessDenied(revision) ==
    IF revision = "server.js" THEN "Access denied. No token provided."
                              ELSE "Access denied"

(* The outcome of authenticate: next = TRUE when next() is called, with    *)
(* uid the _id of req.user (0: req.user is null); otherwise the 401.       *)
authenticate(revision, header, store, clock) ==
    LET token == ExtractToken(header)
    IN IF token.sig = "empty"
       THEN [next |-> FALSE, uid |-> 0, status |-> 401, error |-> AccessDenied(revision)]
       ELSE IF ~Verifies(token, clock)
       THEN [next |-> FALSE, uid |-> 0, status |-> 401, error |-> "Invalid token"]
       ELSE IF revision = "server.js" /\ findById(store, token.sub) = 0
       THEN [next |-> FALSE, uid |-> 0, status |-> 401, error |-> "User not found"]
       ELSE [next |-> TRUE, uid |-> findById(store, token.sub), status |-> 0, error |-> ""]

(* authenticate needs the database only for findById. *)
NeedsDb(header) == Verifies(ExtractToken(header), now)

---------------------------------------------------------------------------
(* GET /api/user. *)

Profile(revision, store, vk, id) ==
    IF revision = "server.js"
    THEN [_id |-> id, name |-> store[id].name, email |-> store[id].email,
          avatar |-> store[id].avatar, studyPlans |-> store[id].studyPlans,
          targetDate |-> store[id].targetDate]
    ELSE IF id = 0 THEN [null |-> TRUE]
    ELSE FullDoc(store, vk, id)

GetUser(r) ==
    /\ Free(r)
    /\ \E header \in Headers :
         LET auth == authenticate(rev, header, users, now)
         IN /\ NeedsDb(header) => readyState = "connected"
            /\ IF auth.next
               THEN Respond("getUser", header, "", auth.uid, lastResp.seq, 200,
                            Profile(rev, users, versionKey, auth.uid))
               ELSE Respond("getUser", header, "", 0, lastResp.seq, auth.status,
                            ErrorBody(auth.error))
    /\ UNCHANGED <<rev, dbUp, readyState, attempts, timers, now, users,
                   versionKey, reqs, registered>>

---------------------------------------------------------------------------
(* The protected handlers that wait for a second database operation:       *)
(* authenticate loads req.user, the handler assigns to it and calls        *)
(* save() (or findById), and answers when that returns.                    *)

SettingsBodies ==
    { [name |-> "Bob", avatar |-> ""],
      [name |-> "", avatar |-> "av.png"],
      [name |-> "Ann", avatar |-> "av.png"],
      [name |-> "", avatar |-> ""] }

TargetDateBodies == {[targetDate |-> d] : d \in Dates \cup {""}}

PlanBodies == Plans \cup {BadPlan}

PlanLists == {<<>>, <<MathPlan>>, <<ArtPlan, MathPlan>>}

(* authenticate, then the handler up to its await. *)
AuthThen(r, kind, body) ==
    /\ Free(r)
    /\ \E header \in Headers :
         LET auth == authenticate(rev, header, users, now)
         IN /\ NeedsDb(header) => readyState = "connected"
            /\ IF ~auth.next
               THEN /\ Respond(kind, header, body, 0, lastResp.seq, auth.status,
                               ErrorBody(auth.error))
                    /\ UNCHANGED reqs
               ELSE IF auth.uid = 0
               THEN \* part_000: req.user is null, req.user.studyPlans throws
                    /\ Respond(kind, header, body, 0, lastResp.seq, 400,
                               ErrorBody("Cannot read properties of null"))
                    /\ UNCHANGED reqs
               ELSE /\ reqs' = [reqs EXCEPT ![r] =
                          [pc |-> "handler", kind |-> kind, header |-> header,
                           body |-> body, uid |-> auth.uid, user |-> users[auth.uid],
                           v |-> versionKey[auth.uid], loadedAt |-> lastResp.seq]]
                    /\ UNCHANGED <<lastResp, prevResp>>
    /\ UNCHANGED <<rev, dbUp, readyState, attempts, timers, now, users,
                   versionKey, registered>>

UpdateSettings(r) ==
    /\ rev = "server.js"
    /\ \E body \in SettingsBodies : AuthThen(r, "settings", body)

UpdateTargetDate(r) ==
    /\ rev = "server.js"
    /\ \E body \in TargetDateBodies : AuthThen(r, "targetDate", body)

CreatePlan(r) ==
    \E body \in PlanBodies : AuthThen(r, "createPlan", body)

ReplacePlans(r) ==
    /\ rev = "server.js"
    /\ \E body \in PlanLists : AuthThen(r, "replacePlans", body)

GetUserById(r) ==
    /\ rev = "server.js"
    /\ \E userId \in Ids : AuthThen(r, "getUserById", userId)

(* A save() that writes the whole in-memory document back. *)
SaveWholeDocument(stored, loaded, mem) == mem

(* document.save() of a loaded document: $set of every path whose value    *)
(* in memory differs from the loaded one; the other paths keep what is     *)
(* stored.                                                                 *)
SaveModified(stored, loaded, mem) ==
    [f \in DOMAIN stored |-> IF mem[f] # loaded[f] THEN mem[f] ELSE stored[f]]

(* The paths save() sends for a document loaded as `loaded` and now `mem`. *)
ModifiedPaths(loaded, mem) == {f \in DOMAIN loaded : mem[f] # loaded[f]}

(* The $push that save() sends for studyPlans.push(plan). *)
PushPlan(stored, plan) == [stored EXCEPT !.studyPlans = Append(@, plan)]

(* A replace that adds the posted list to the stored one. *)
SetPlansAppending(stored, list) == [stored EXCEPT !.studyPlans = @ \o list]

(* The $set that save() sends for studyPlans = list. *)
SetPlans(stored, list) == [stored EXCEPT !.studyPlans = list]

(* Whether assigning `list` to the loaded studyPlans marks it modified:    *)
(* the plans of a body have no _id, so only [] over [] is deepEqual.       *)
PlansModified(loaded, list) == ~(list = <<>> /\ loaded.studyPlans = <<>>)

(* Settings assigned without the truthiness checks. *)
AssignSettingsUnchecked(loaded, body) ==
    [loaded EXCEPT !.name = body.name, !.avatar = body.avatar]

(* req.user after "if (name) req.user.name = name; if (avatar) ...". *)
AssignSettings(loaded, body) ==
    [loaded EXCEPT !.name = IF body.name # "" THEN body.name ELSE @,
                   !.avatar = IF body.avatar # "" THEN body.avatar ELSE @]

(* req.user after "req.user.targetDate = targetDate". *)
AssignTargetDate(loaded, body) == [loaded EXCEPT !.targetDate = body.targetDate]

Summary(id, doc) ==
    [_id |-> id, name |-> doc.name, email |-> doc.email, avatar |-> doc.avatar]

Finish(r) == reqs' = [reqs EXCEPT ![r] = Idle]

Handling(r, kind) ==
    /\ reqs[r].pc = "handler"
    /\ reqs[r].kind = kind
    /\ readyState = "connected"

(* PUT /api/user/settings: await req.user.save(), res.json. *)
SettingsSave(r) ==
    /\ Handling(r, "settings")
    /\ LET q == reqs[r]
           mem == AssignSettings(q.user, q.body)
       IN /\ users' = [users EXCEPT ![q.uid] = SaveModified(@, q.user, mem)]
          /\ RespondSaved("settings", q.header, q.body, q.uid, q.loadedAt, 200,
                          [message |-> "Settings updated successfully",
                           user |-> Summary(q.uid, mem)],
                          mem, ModifiedPaths(q.user, mem))
    /\ Finish(r)
    /\ UNCHANGED <<rev, dbUp, readyState, attempts, timers, now, versionKey,
                   registered>>

(* PUT /api/target-date: await req.user.save(), res.json. *)
TargetDateSave(r) ==
    /\ Handling(r, "targetDate")
    /\ LET q == reqs[r]
           mem == AssignTargetDate(q.user, q.body)
       IN /\ users' = [users EXCEPT ![q.uid] = SaveModified(@, q.user, mem)]
          /\ RespondSaved("targetDate", q.header, q.body, q.uid, q.loadedAt, 200,
                          [message |-> "Target date updated successfully",
                           targetDate |-> q.body.targetDate],
                          mem, ModifiedPaths(q.user, mem))
    /\ Finish(r)
    /\ UNCHANGED <<rev, dbUp, readyState, attempts, timers, now, versionKey,
                   registered>>

(* A create-plan whose save() writes the in-memory studyPlans back whole   *)
(* instead of sending the $push.                                           *)
CreatePlanSaveWholeArray(r) ==
    /\ Handling(r, "createPlan")
    /\ LET q == reqs[r]
       IN IF PlanCasts(q.body)
          THEN /\ Len(users[q.uid].studyPlans) < MaxPlans
               /\ users' = [users EXCEPT ![q.uid] =
                               SetPlans(@, Append(q.user.studyPlans, q.body))]
               /\ versionKey' = [versionKey EXCEPT ![q.uid] = @ + 1]
               /\ RespondSaved("createPlan", q.header, q.body, q.uid, q.loadedAt, 201,
                               [plans |-> Append(q.user.studyPlans, q.body)],
                               PushPlan(q.user, q.body), {"studyPlans"})
          ELSE /\ Respond("createPlan", q.header, q.body, q.uid, q.loadedAt, 400,
                          ErrorBody("User validation failed"))
               /\ UNCHANGED <<users, versionKey>>
    /\ Finish(r)
    /\ UNCHANGED <<rev, dbUp, readyState, attempts, timers, now, registered>>

(* POST /api/plans: await req.user.save() sends the $push and bumps __v;   *)
(* a plan that does not cast fails validation and is answered 400.         *)
CreatePlanSave(r) ==
    /\ Handling(r, "createPlan")
    /\ LET q == reqs[r]
       IN IF PlanCasts(q.body)
          THEN /\ Len(users[q.uid].studyPlans) < MaxPlans
               /\ users' = [users EXCEPT ![q.uid] = PushPlan(@, q.body)]
               /\ versionKey' = [versionKey EXCEPT ![q.uid] = @ + 1]
               /\ RespondSaved("createPlan", q.header, q.body, q.uid, q.loadedAt, 201,
                               [plans |-> Append(q.user.studyPlans, q.body)],
                               PushPlan(q.user, q.body), {"studyPlans"})
          ELSE /\ Respond("createPlan", q.header, q.body, q.uid, q.loadedAt, 400,
                          ErrorBody("User validation failed"))
               /\ UNCHANGED <<users, versionKey>>
    /\ Finish(r)
    /\ UNCHANGED <<rev, dbUp, readyState, attempts, timers, now, registered>>

(* PUT /api/plans: await req.user.save() sends $set studyPlans with the    *)
(* loaded __v in the filter; no match is a VersionError, answered 500.     *)
ReplacePlansSave(r) ==
    /\ Handling(r, "replacePlans")
    /\ LET q == reqs[r]
       IN IF ~PlansModified(q.user, q.body)
          THEN /\ RespondSaved("replacePlans", q.header, q.body, q.uid, q.loadedAt, 200,
                               [message |-> "Study plans updated successfully",
                                plans |-> q.body],
                               SetPlans(q.user, q.body), {})
               /\ UNCHANGED <<users, versionKey>>
          ELSE IF versionKey[q.uid] = q.v
          THEN /\ users' = [users EXCEPT ![q.uid] = SetPlans(@, q.body)]
               /\ versionKey' = [versionKey EXCEPT ![q.uid] = @ + 1]
               /\ RespondSaved("replacePlans", q.header, q.body, q.uid, q.loadedAt, 200,
                               [message |-> "Study plans updated successfully",
                                plans |-> q.body],
                               SetPlans(q.user, q.body), {"studyPlans"})
          ELSE /\ Respond("replacePlans", q.header, q.body, q.uid, q.loadedAt, 500,
                          ErrorBody("Error updating study plans"))
               /\ UNCHANGED <<users, versionKey>>
    /\ Finish(r)
    /\ UNCHANGED <<rev, dbUp, readyState, attempts, timers, now, registered>>

(* GET /api/users/:userId: await User.findById(req.params.userId),         *)
(* res.json(user).                                                         *)
GetUserByIdFind(r) ==
    /\ Handling(r, "getUserById")
    /\ LET q == reqs[r]
       IN IF findById(users, q.body) = 0
          THEN Respond("getUserById", q.header, q.body, q.uid, q.loadedAt, 404,
                       ErrorBody("User not found"))
          ELSE Respond("getUserById", q.header, q.body, q.uid, q.loadedAt, 200,
                       FullDoc(users, versionKey, q.body))
    /\ Finish(r)
    /\ UNCHANGED <<rev, dbUp, readyState, attempts, timers, now, users,
                   versionKey, registered>>

---------------------------------------------------------------------------
Next ==
    \/ ConnectResolved
    \/ ConnectRejected
    \/ RetryTimerFires
    \/ DbReachabilityChanges
    \/ Tick
    \/ \E r \in Slots : Register(r)
    \/ \E r \in Slots : RegisterSave(r)
    \/ \E r \in Slots : RegisterPart000(r)
    \/ \E r \in Slots : Login(r)
    \/ \E r \in Slots : Health(r)
    \/ \E r \in Slots : GetUser(r)
    \/ \E r \in Slots : UpdateSettings(r)
    \/ \E r \in Slots : UpdateTargetDate(r)
    \/ \E r \in Slots : CreatePlan(r)
    \/ \E r \in Slots : ReplacePlans(r)
    \/ \E r \in Slots : GetUserById(r)
    \/ \E r \in Slots : SettingsSave(r)
    \/ \E r \in Slots : TargetDateSave(r)
    \/ \E r \in Slots : CreatePlanSave(r)
    \/ \E r \in Slots : ReplacePlansSave(r)
    \/ \E r \in Slots : GetUserByIdFind(r)

Spec == Init /\ [][Next]_vars

---------------------------------------------------------------------------
(* Vocabulary of the properties. *)

Success == {200, 201}
Rejected == {400, 401, 404}
Protected == {"getUser", "settings", "targetDate", "createPlan",
              "replacePlans", "getUserById"}
Mutators == {"settings", "targetDate", "createPlan", "replacePlans"}

(* The step sends a response. *)
Responds == lastResp'.seq # lastResp.seq

(* A register body that passes the presence check of every field. *)
Complete(body) == body.name # "" /\ body.email # "" /\ body.password # <<>>

(* The answers that report a duplicate email: the handler's own message    *)
(* and the store's duplicate-key message (err.message of E11000).          *)
DuplicateEmailAnswers ==
    {ErrorBody("Email already in use"), ErrorBody("E11000 duplicate key error")}

(* Some stored user other than `id` holds `email`. *)
HeldByAnother(email, id) ==
    \E i \in DOMAIN users : i # id /\ users[i].email = email

(* A response body carries a password field, at top level or in its user. *)
CarriesPassword(body) ==
    \/ "password" \in DOMAIN body
    \/ "user" \in DOMAIN body /\ "password" \in DOMAIN body.user

PasswordIn(body) ==
    IF "password" \in DOMAIN body THEN body.password ELSE body.user.password

---------------------------------------------------------------------------
(* C1: a register request (with every field present) whose email is held   *)
(* by a stored user when it is answered is answered 400 with the           *)
(* duplicate-email error, in every interleaving, and creates no user.      *)
(* (The store changes only in steps that respond, so in a state whose last *)
(* response answers a register, a user other than the one this response    *)
(* created held the email before the response.)                            *)
C1_DuplicateEmailIs400 ==
    (/\ lastResp.kind = "register"
     /\ Complete(lastResp.input)
     /\ HeldByAnother(lastResp.input.email, lastResp.uid))
    => (/\ lastResp.status = 400
        /\ lastResp.body \in DuplicateEmailAnswers
        /\ lastResp.uid = 0)

(* C1, the part the code keeps: such a request never creates a user.       *)
C1_DuplicateCreatesNoUser ==
    (/\ lastResp.kind = "register"
     /\ HeldByAnother(lastResp.input.email, lastResp.uid))
    => (lastResp.uid = 0 /\ lastResp.status # 201)

---------------------------------------------------------------------------
(* C2: no two stored users have the same email, and every stored password  *)
(* is the bcrypt hash of the plaintext the user registered with, never the *)
(* plaintext.                                                              *)
C2_UniqueEmailHashedPassword ==
    /\ \A i, j \in DOMAIN users : users[i].email = users[j].email => i = j
    /\ \A i \in DOMAIN users :
         /\ \E salt \in Salts :
              users[i].password = Hash(registered[i].password, salt)
         /\ users[i].password # registered[i].password
         /\ Compare(registered[i].password, users[i].password)

(* C2 witness: the store refused an insert for a held email while two      *)
(* users are stored, or after the register race.                           *)
C2_Witness ==
    /\ lastResp.kind = "register"
    /\ lastResp.status \in {400, 500}
    /\ Complete(lastResp.input)
    /\ prevResp.kind = "register"
    /\ prevResp.status = 201
    /\ prevResp.input.email = lastResp.input.email
    /\ lastResp.loadedAt < prevResp.seq

---------------------------------------------------------------------------
(* C3: a login with the email and password of a successful register is     *)
(* answered 200 with a token, and at every time before the token's expiry  *)
(* authenticate passes a request bearing it, with req.user the registered  *)
(* user.                                                                   *)
ClockValues == 0..(MaxTicks * TickDays)

RegisteredWith(id, body) ==
    /\ id \in DOMAIN registered
    /\ registered[id].email = body.email
    /\ registered[id].password = body.password

C3_LoginAfterRegister ==
    \A id \in DOMAIN users :
        (lastResp.kind = "login" /\ RegisteredWith(id, lastResp.input))
        => /\ lastResp.status = 200
           /\ "token" \in DOMAIN lastResp.body
           /\ \A t \in ClockValues :
                (lastResp.body.token.hasExp => t < lastResp.body.token.exp)
                => LET auth == authenticate(rev, Bearer(lastResp.body.token), users, t)
                   IN /\ auth.next
                      /\ auth.uid = id
                      /\ users[auth.uid].email = registered[id].email

(* C3 witness: a login with registered credentials, answered after time    *)
(* has passed since the registration.                                      *)
C3_Witness ==
    /\ lastResp.kind = "login"
    /\ lastResp.status = 200
    /\ \E id \in DOMAIN users : RegisteredWith(id, lastResp.input)
    /\ prevResp.kind = "register"
    /\ prevResp.status = 201

---------------------------------------------------------------------------
(* C7: no response body of any endpoint contains the stored password hash  *)
(* of a user.                                                              *)
C7_NoPasswordHashInResponse ==
    CarriesPassword(lastResp.body)
    => \A i \in DOMAIN users : users[i].password # PasswordIn(lastResp.body)

---------------------------------------------------------------------------
(* C4: the body of a protected handler runs only for a request whose token *)
(* is present, verifies and names a stored user, with req.user that user;  *)
(* every other protected request is answered 401 (no token: access denied; *)
(* verification fails: invalid token; no such user: user not found) and    *)
(* leaves the store unchanged.                                             *)

(* The gate's conditions for the request bearing `header`, at this step. *)
GateOpen(header) ==
    /\ ExtractToken(header).sig # "empty"
    /\ Verifies(ExtractToken(header), now)
    /\ findById(users, ExtractToken(header).sub) # 0

(* The 401 the claim gives the request bearing `header`. *)
GateError(header) ==
    IF ExtractToken(header).sig = "empty"
    THEN {"Access denied", "Access denied. No token provided."}
    ELSE IF ~Verifies(ExtractToken(header), now) THEN {"Invalid token"}
    ELSE {"User not found"}

(* The step is the first of a protected request: authenticate ran. *)
Authenticated(r) == reqs[r].pc = "idle" /\ reqs'[r].pc = "handler"
AnsweredAtGate == Responds /\ lastResp'.kind \in Protected /\ reqs' = reqs

C4_GateStep ==
    /\ \A r \in Slots :
         Authenticated(r)
         => /\ GateOpen(reqs'[r].header)
            /\ reqs'[r].uid = ExtractToken(reqs'[r].header).sub
            /\ reqs'[r].user = users[reqs'[r].uid]
    /\ AnsweredAtGate
       => IF GateOpen(lastResp'.header)
          THEN /\ lastResp'.kind = "getUser"
               /\ lastResp'.status = 200
               /\ lastResp'.uid = ExtractToken(lastResp'.header).sub
          ELSE /\ lastResp'.status = 401
               /\ lastResp'.body.error \in GateError(lastResp'.header)
               /\ users' = users

C4_AuthGate == [][C4_GateStep]_vars

(* C4 as the revision server.js keeps it. *)
C4_AuthGateServerJs == [][rev = "server.js" => C4_GateStep]_vars

---------------------------------------------------------------------------
(* C5: every create-plan answered 201 appends the posted plan to the       *)
(* stored studyPlans of its user: the stored list grows by exactly one,    *)
(* the plan is its last element and the entries stored before keep their   *)
(* order, whatever other requests on the user are in flight.               *)
C5_AppendStep ==
    (Responds /\ lastResp'.kind = "createPlan" /\ lastResp'.status = 201)
    => LET id == lastResp'.uid
       IN /\ Len(users'[id].studyPlans) = Len(users[id].studyPlans) + 1
          /\ users'[id].studyPlans = Append(users[id].studyPlans, lastResp'.input)

C5_CreatePlanAppends == [][C5_AppendStep]_vars

(* Two requests overlap: the one answered last loaded req.user before the  *)
(* one answered before it saved.                                           *)
Overlapped ==
    /\ lastResp.uid # 0
    /\ lastResp.uid = prevResp.uid
    /\ lastResp.loadedAt < prevResp.seq

(* C5 witness: two create-plan requests on one user overlapped and both    *)
(* were answered 201; the list answered last lacks the other's plan, the   *)
(* stored list holds both.                                                 *)
C5_Witness ==
    /\ lastResp.kind = "createPlan" /\ lastResp.status = 201
    /\ prevResp.kind = "createPlan" /\ prevResp.status = 201
    /\ Overlapped
    /\ Len(lastResp.body.plans) = 1
    /\ users[lastResp.uid].studyPlans = <<prevResp.input, lastResp.input>>

---------------------------------------------------------------------------
(* C6: replace-plans is idempotent.  A replace answered 200 that ran       *)
(* without another save between its load and its save leaves studyPlans    *)
(* equal to the posted list whatever was stored, and when the response     *)
(* before it answered such a replace of the same user with the same list,  *)
(* it leaves the stored document as that one left it.                      *)
Sequential(resp, before) == resp.loadedAt = before.seq

C6_ReplaceStep ==
    (/\ Responds
     /\ lastResp'.kind = "replacePlans"
     /\ lastResp'.status = 200
     /\ Sequential(lastResp', lastResp))
    => LET id == lastResp'.uid
       IN /\ users'[id].studyPlans = lastResp'.input
          /\ (/\ lastResp.kind = "replacePlans"
              /\ lastResp.status = 200
              /\ Sequential(lastResp, prevResp)
              /\ lastResp.uid = id
              /\ lastResp.input = lastResp'.input)
             => users'[id] = users[id]

---------------------------------------------------------------------------
(* C8: one connection attempt starts at startup; every failed attempt      *)
(* schedules exactly one new attempt after the fixed 5-second delay, a     *)
(* successful one schedules none; at most one attempt is pending or in     *)
(* flight.                                                                 *)
AttemptFails == attempts' < attempts /\ readyState' = "disconnected"
AttemptSucceeds == attempts' < attempts /\ readyState' = "connected"

C8_SupervisorStep ==
    /\ AttemptFails => timers' = Append(timers, RetryDelayMs)
    /\ AttemptSucceeds => timers' = timers
    /\ attempts' + Len(timers') <= 1

C8_RetryAfterFailure == [][C8_SupervisorStep]_vars

(* C8 as the revision server.js keeps it. *)
C8_RetryAfterFailureServerJs == [][rev = "server.js" => C8_SupervisorStep]_vars

(* C8, liveness: if the database stays reachable the supervisor connects.  *)
C8_EventuallyConnected == (<>[]dbUp) => <>(readyState = "connected")
C8_EventuallyConnectedServerJs ==
    (rev = "server.js" /\ <>[]dbUp) => <>(readyState = "connected")

(* The event loop runs a due timer, and a connection attempt settles. *)
FairSpec ==
    /\ Spec
    /\ WF_vars(RetryTimerFires)
    /\ WF_vars(ConnectResolved)
    /\ WF_vars(ConnectRejected)

---------------------------------------------------------------------------
(* The paths of the document the handler of each endpoint assigns. *)
Assigns(kind) ==
    CASE kind = "settings" -> {"name", "avatar"}
      [] kind = "targetDate" -> {"targetDate"}
      [] kind \in {"createPlan", "replacePlans"} -> {"studyPlans"}
      [] OTHER -> {}

Fields == DOMAIN NoUser

(* The last two responses answer two mutating requests on one user that    *)
(* overlapped (both loaded req.user before either saved), both with        *)
(* success.                                                                *)
BothSavedOverlapping ==
    /\ lastResp.kind \in Mutators /\ lastResp.status \in Success
    /\ prevResp.kind \in Mutators /\ prevResp.status \in Success
    /\ Overlapped

(* C9 as stated: once two overlapping mutating requests on a user have     *)
(* completed, the stored document equals the in-memory document of the     *)
(* request that saved last (the last save wins and the first saver's       *)
(* change is lost).                                                        *)
C9_LastSaveWins ==
    BothSavedOverlapping => users[lastResp.uid] = lastResp.mem

(* C9 amended: overlapping saves are not serialized, and a save writes     *)
(* only the paths its handler modified.  Once both have completed, each    *)
(* of name, avatar and targetDate that the last saver modified holds its   *)
(* value; a change of the first saver to one of them is still stored       *)
(* unless the last saver's endpoint assigns that path; the plans of two    *)
(* overlapping create-plan requests are both stored, in the order of their *)
(* saves; and a change of the first saver to studyPlans is still stored    *)
(* after a settings or target-date update saved last.                      *)
C9_SavesMergeByPath ==
    BothSavedOverlapping
    => LET id == lastResp.uid
           stored == users[id].studyPlans
       IN /\ \A f \in lastResp.modified \ {"studyPlans"} :
               users[id][f] = lastResp.mem[f]
          /\ \A f \in (prevResp.modified \ {"studyPlans"}) \ Assigns(lastResp.kind) :
               users[id][f] = prevResp.mem[f]
          /\ (prevResp.kind = "createPlan" /\ lastResp.kind = "createPlan")
             => /\ Len(stored) >= 2
                /\ SubSeq(stored, Len(stored) - 1, Len(stored))
                   = <<prevResp.input, lastResp.input>>
          /\ ("studyPlans" \in prevResp.modified /\ lastResp.kind \in {"settings", "targetDate"})
             => IF prevResp.kind = "createPlan"
                THEN stored # <<>> /\ stored[Len(stored)] = prevResp.input
                ELSE stored = prevResp.input

(* C9 witness: a settings update and a target-date update overlapped; the  *)
(* name saved first and the date saved last are both stored.               *)
C9_Witness ==
    /\ BothSavedOverlapping
    /\ prevResp.kind = "settings" /\ "name" \in prevResp.modified
    /\ lastResp.kind = "targetDate" /\ "targetDate" \in lastResp.modified
    /\ users[lastResp.uid].name = prevResp.input.name
    /\ users[lastResp.uid].targetDate = lastResp.input.targetDate

---------------------------------------------------------------------------
(* C10: a mutating protected request changes only the document of the user *)
(* its token names, and only the paths of its endpoint (settings: name and *)
(* avatar, each left alone when its input is empty; target date:           *)
(* targetDate; create and replace plans: studyPlans).  No request changes  *)
(* the email or password of a stored user, and a request answered 400, 401 *)
(* or 404 changes nothing.                                                 *)
C10_FrameStep ==
    /\ DOMAIN users \subseteq DOMAIN users'
    /\ \A i \in DOMAIN users :
         /\ users'[i].email = users[i].email
         /\ users'[i].password = users[i].password
    /\ ~Responds => users' = users
    /\ Responds
       => /\ lastResp'.status \in Rejected => users' = users
          /\ \A i \in DOMAIN users :
               /\ (i # lastResp'.uid \/ lastResp'.kind \notin Mutators)
                  => users'[i] = users[i]
               /\ \A f \in Fields \ Assigns(lastResp'.kind) :
                    users'[i][f] = users[i][f]
          /\ (lastResp'.kind = "settings" /\ lastResp'.status \in Success)
             => LET id == lastResp'.uid
                IN /\ lastResp'.input.name = "" => users'[id].name = users[id].name
                   /\ lastResp'.input.avatar = "" => users'[id].avatar = users[id].avatar

=============================================================================
